---- MODULE Spec2Model ----
(***************************************************************************)
(* A model of mora: the manifest-driven downloader (mora/downloader.py),   *)
(* the catalogue reconciliation of the artist flow and the loop over the   *)
(* selected tracks (mora/cli.py), and the manifest requests (mora/api.py). *)
(*                                                                         *)
(* Text is a sequence of one-character strings, a path is a sequence of    *)
(* string tokens, a file's content is a sequence of chunks.                *)
(***************************************************************************)
EXTENDS Integers, Sequences, FiniteSets, TLC

VARIABLES
    pc,             \* position of the download_track call
    manifest_data,  \* the manifest handed to download_track
    metadata,       \* the TrackInfo handed to download_track
    fs,             \* the output directory: path -> content
    requests,       \* the URLs requested so far, in order
    segments,       \* _download_dash: the expanded timeline
    media_paths,    \* _download_dash: temp paths of the fetched segments
    base_url,       \* _download_dash: the resolved base URL
    tpl_ns,         \* _download_dash: namespace of the resolved SegmentTemplate
    error,          \* the exception leaving download_track ("none": none)
    result          \* the path download_track returned (<<>>: none)

dlvars == <<pc, manifest_data, metadata, fs, requests, segments, media_paths,
            base_url, tpl_ns, error, result>>

VARIABLES
    apc,            \* position in the reconciliation flow
    tracks_list,    \* the track records handed in
    unique_tracks,  \* deduplicate_tracks' result
    itunes_albums,  \* reference album titles (normalized)
    itunes_tracks,  \* reference track titles (normalized)
    verified_album_ids,
    final_tracks,   \* the tracks classified Verified, in order
    discarded_albums, \* album titles of the tracks classified Suspect
    sorted_tracks   \* the reconciled tracks in presentation order

arvars == <<apc, tracks_list, unique_tracks, itunes_albums, itunes_tracks,
            verified_album_ids, final_tracks, discarded_albums, sorted_tracks>>

VARIABLES
    fpc,            \* position of the get_itunes_fingerprint call
    resp,           \* the answer to the search request
    resp2,          \* the answer to the lookup request
    main_artist_id, \* the artistId the lookup is made for (0: none yet)
    fp_error        \* "caught": an exception reached the except clause

fpvars == <<fpc, resp, resp2, main_artist_id, fp_error>>

VARIABLES
    bpc,            \* position in the loop over the selected tracks
    selected,       \* the ids of the selected tracks, in selection order
    requested,      \* the quality asked for
    track_ix,       \* the place in selected of the track being processed
    invoked,        \* the track ids _download_track was called with, in order
    endings,        \* how each call ended: "saved" or the step that failed
    tier,           \* the quality of the running get_track_manifest call
    mirror,         \* the place in track_bases of the base being asked
    attempt,        \* _get: the attempt about to be made
    sent,           \* the manifest requests made for the track, with their outcomes
    started         \* downloader.download_track was called for the track

btvars == <<bpc, selected, requested, track_ix, invoked, endings, tier, mirror,
            attempt, sent, started>>

vars == <<dlvars, arvars, fpvars, btvars>>

----------------------------------------------------------------------------
(* Bounds *)

MaxEntries == 2     \* S entries in a SegmentTimeline
MaxTracks == 3      \* track records handed to deduplicate_tracks
MaxItems == 2       \* items in the results of a search or lookup answer
MaxSelected == 2    \* tracks selected for download

----------------------------------------------------------------------------
(* Helpers on sequences *)

RECURSIVE Concat(_)
Concat(ss) == IF ss = <<>> THEN <<>> ELSE Head(ss) \o Concat(Tail(ss))

RECURSIVE Join(_, _)
Join(ss, sep) ==
    IF ss = <<>> THEN <<>>
    ELSE IF Len(ss) = 1 THEN ss[1]
    ELSE ss[1] \o sep \o Join(Tail(ss), sep)

SeqsUpTo(S, n) == UNION {[1..k -> S] : k \in 0..n}

Range(s) == {s[i] : i \in DOMAIN s}

----------------------------------------------------------------------------
(* mora/downloader.py *)

\* re.sub(r'[\\/*?:"<>|]', "", name)
IllegalChars == {"\\", "/", "*", "?", ":", "\"", "<", ">", "|"}

_sanitize_filename(name) == SelectSeq(name, LAMBDA c : c \notin IllegalChars)

\* ", ".join([a.name for a in metadata.artists if a.name])
ArtistNames(md) ==
    LET named == SelectSeq(md.artists, LAMBDA a : a.name # <<>>)
    IN  Join([i \in DOMAIN named |-> named[i].name], <<",", " ">>)

Flac(prefix, title) == prefix \o <<" ", "-", " ">> \o title \o <<".", "f", "l", "a", "c">>

\* lines 58-60 and 88-90: the filename from the joined artist names
JoinedArtistsPath(md) == _sanitize_filename(Flac(ArtistNames(md), md.title))

\* lines 111-112: the filename from the primary artist
PrimaryArtistPath(md) == _sanitize_filename(Flac(md.artist.name, md.title))

\* lines 101 and 107: f"{metadata.id}_init.m4s", f"{metadata.id}_seg_{i}.m4s"
InitPath(md) == <<ToString(md.id), "_init", ".m4s">>
SegPath(md, i) == <<ToString(md.id), "_seg_", ToString(i), ".m4s">>

IsTemp(p) == p # <<>> /\ p[Len(p)] = ".m4s"

\* What a URL serves: two chunks.
Body(url) == <<[url |-> url, chunk |-> 1], [url |-> url, chunk |-> 2]>>

\* _download_file: the request fails before the file is opened ("http"), or the
\* stream breaks after k chunks were written ("stream"), or all is written.
Outcomes == {[kind |-> "ok", k |-> 2], [kind |-> "http", k |-> 0],
             [kind |-> "stream", k |-> 0], [kind |-> "stream", k |-> 1]}

_download_file(files, url, dest, o) ==
    IF o.kind = "http" THEN files
    ELSE (dest :> SubSeq(Body(url), 1, o.k)) @@ files

\* root.find(".//mpd:X", ns) or root.find(".//X"): an Element is false when it
\* has no child element, so a childless qualified element yields the second find.
Find(present, hasChildren) ==
    IF "q" \in present /\ hasChildren THEN "q"
    ELSE IF "u" \in present THEN "u"
    ELSE "none"

\* urljoin(base_url, template.replace("$Number$", str(i)))
Url(base, tns, kind, i) == [base |-> base, tns |-> tns, kind |-> kind, n |-> i]

\* [d] * n
Repeat(d, n) == [i \in 1..(IF n > 0 THEN n ELSE 0) |-> d]

\* The repeat count taken as the number of segments.
RepeatCountOffByOne(s) == IF s.hasR THEN s.r ELSE 0

\* line 97: r = int(s.get("r", 0)) + 1
RepeatCount(s) == (IF s.hasR THEN s.r ELSE 0) + 1

\* lines 94-98: segments.extend([d] * r) for each S of the timeline
RECURSIVE Expand(_)
Expand(S) ==
    IF S = <<>> THEN <<>>
    ELSE Repeat(S[1].d, RepeatCount(S[1])) \o Expand(Tail(S))

\* The initialization segment written last.
ConcatPartsInitLast(init, medias) == medias \o <<init>>

\* lines 113-118: what is written to the output, in order
ConcatParts(init, medias) == <<init>> \o medias

\* The removal forgetting the initialization segment.
TempFilesMediaOnly(init_path, paths) == Range(paths)

\* lines 120-122: the files removed after the concatenation
TempFiles(init_path, paths) == {init_path} \cup Range(paths)

----------------------------------------------------------------------------
(* Inputs of download_track *)

NsSets == {{"q"}, {"u"}, {"q", "u"}}

\* The S entries a timeline is drawn from: <S d="4" r="2"/>, <S d="5"/> and
\* <S d="6" r="0"/>.
SEntries == {[d |-> 4, hasR |-> TRUE, r |-> 2], [d |-> 5, hasR |-> FALSE, r |-> 0],
             [d |-> 6, hasR |-> TRUE, r |-> 0]}

\* An MPD document: which BaseURL, Representation, SegmentTemplate and
\* SegmentTimeline elements it holds, by namespace (q: qualified, u: not), whether
\* a Representation or SegmentTemplate has another child element, the template's
\* attributes, and the timeline's S entries (at least one, as the schema demands).
NoTree == [rep |-> {}, repExtra |-> FALSE, tpl |-> {}, tplExtra |-> FALSE,
           init |-> FALSE, media |-> FALSE, timeline |-> {}, S |-> <<>>]

Trees ==
    {NoTree}
    \cup {[NoTree EXCEPT !.rep = r, !.repExtra = x] : r \in NsSets, x \in BOOLEAN}
    \cup {[NoTree EXCEPT !.rep = r, !.tpl = t, !.tplExtra = x, !.init = a[1], !.media = a[2]] :
            r \in NsSets, t \in NsSets, x \in BOOLEAN,
            a \in {<<TRUE, TRUE>>, <<FALSE, TRUE>>, <<TRUE, FALSE>>}}
    \cup {[NoTree EXCEPT !.rep = r, !.tpl = t, !.init = TRUE, !.media = TRUE,
                         !.timeline = l, !.S = s] :
            r \in NsSets, t \in NsSets, l \in NsSets,
            s \in SeqsUpTo(SEntries, MaxEntries) \ {<<>>}}

MPDs == {[base |-> b, tree |-> t] : b \in SUBSET {"q", "u"}, t \in Trees}

NoMPD == [base |-> {}, tree |-> NoTree]

ManifestData ==
    {[mime |-> "application/dash+xml", manifest |-> TRUE, urls |-> <<>>, mpd |-> m] : m \in MPDs}
    \cup {[mime |-> "application/vnd.tidal.bts", manifest |-> TRUE, urls |-> u, mpd |-> NoMPD] :
            u \in {<<>>, <<"u1">>, <<"u1", "u2">>}}
    \cup {[mime |-> m, manifest |-> FALSE, urls |-> <<>>, mpd |-> NoMPD] :
            m \in {"application/dash+xml", "application/vnd.tidal.bts"}}
    \cup {[mime |-> "text/plain", manifest |-> TRUE, urls |-> <<>>, mpd |-> NoMPD]}

ArtistA == [id |-> 1, name |-> <<"A", "/", "C">>]
ArtistB == [id |-> 2, name |-> <<"B">>]
ArtistE == [id |-> 3, name |-> <<>>]

\* TrackInfo records: the primary artist heads the artists list.
Metadata ==
    {[id |-> 7, title |-> <<"T", "?">>, artist |-> ArtistA, artists |-> l] :
        l \in {<<ArtistA>>, <<ArtistA, ArtistB>>, <<ArtistA, ArtistE>>}}

----------------------------------------------------------------------------
(* download_track and its steps *)

Fail(e) == /\ pc' = "failed"
           /\ error' = e

\* lines 32-48
download_track ==
    /\ pc = "start"
    /\ IF ~manifest_data.manifest THEN Fail("Manifest is empty")
       ELSE IF manifest_data.mime = "application/vnd.tidal.bts"
            THEN pc' = "bts" /\ UNCHANGED error
       ELSE IF manifest_data.mime = "application/dash+xml"
            THEN pc' = "dash" /\ UNCHANGED error
       ELSE Fail("Unsupported manifest type")
    /\ UNCHANGED <<manifest_data, metadata, fs, requests, segments, media_paths,
                   base_url, tpl_ns, result>>
    /\ UNCHANGED <<arvars, fpvars, btvars>>

\* lines 50-62
_download_bts ==
    /\ pc = "bts"
    /\ IF manifest_data.urls = <<>>
       THEN /\ Fail("No URLs found in BTS manifest")
            /\ UNCHANGED <<fs, requests, result>>
       ELSE \E o \in Outcomes :
              LET url == Url("", "none", manifest_data.urls[1], 0)
                  path == JoinedArtistsPath(metadata)
              IN  /\ requests' = Append(requests, url)
                  /\ fs' = _download_file(fs, url, path, o)
                  /\ IF o.kind = "ok"
                     THEN pc' = "done" /\ result' = path /\ UNCHANGED error
                     ELSE Fail("fetch") /\ UNCHANGED result
    /\ UNCHANGED <<manifest_data, metadata, segments, media_paths, base_url, tpl_ns>>
    /\ UNCHANGED <<arvars, fpvars, btvars>>

\* lines 66-98: the structural lookups and the expansion of the timeline
RepFound(t) == Find(t.rep, t.repExtra \/ t.tpl # {})
TplFound(t) == Find(t.tpl, t.tplExtra \/ t.timeline # {})
TimelineFound(t) == Find(t.timeline, t.S # <<>>)
BaseFound(m) == Find(m.base, FALSE)

\* line 70: the text of the BaseURL element found, "" when none
BaseText(m) == IF BaseFound(m) = "none" THEN "" ELSE "base-" \o BaseFound(m)

ParseError(m) ==
    IF RepFound(m.tree) = "none" THEN "Could not find Representation in MPD"
    ELSE IF TplFound(m.tree) = "none" THEN "Could not find SegmentTemplate"
    ELSE IF ~m.tree.init \/ ~m.tree.media THEN "Missing attributes in SegmentTemplate"
    ELSE "none"

_download_dash_parse ==
    /\ pc = "dash"
    /\ LET m == manifest_data.mpd
       IN  IF ParseError(m) # "none"
           THEN /\ Fail(ParseError(m))
                /\ UNCHANGED <<base_url, tpl_ns, segments>>
           ELSE /\ base_url' = BaseText(m)
                /\ tpl_ns' = TplFound(m.tree)
                /\ UNCHANGED error
                /\ IF TimelineFound(m.tree) = "none"
                   THEN pc' = "single" /\ UNCHANGED segments
                   ELSE pc' = "init" /\ segments' = Expand(m.tree.S)
    /\ UNCHANGED <<manifest_data, metadata, fs, requests, media_paths, result>>
    /\ UNCHANGED <<arvars, fpvars, btvars>>

\* lines 86-92: no timeline, segment 1 straight to the destination
_download_dash_single ==
    /\ pc = "single"
    /\ \E o \in Outcomes :
         LET url == Url(base_url, tpl_ns, "media", 1)
             path == JoinedArtistsPath(metadata)
         IN  /\ requests' = Append(requests, url)
             /\ fs' = _download_file(fs, url, path, o)
             /\ IF o.kind = "ok"
                THEN pc' = "done" /\ result' = path /\ UNCHANGED error
                ELSE Fail("fetch") /\ UNCHANGED result
    /\ UNCHANGED <<manifest_data, metadata, segments, media_paths, base_url, tpl_ns>>
    /\ UNCHANGED <<arvars, fpvars, btvars>>

\* lines 100-102
_download_dash_init ==
    /\ pc = "init"
    /\ \E o \in Outcomes :
         LET url == Url(base_url, tpl_ns, "init", 0)
         IN  /\ requests' = Append(requests, url)
             /\ fs' = _download_file(fs, url, InitPath(metadata), o)
             /\ IF o.kind = "ok"
                THEN pc' = "seg" /\ UNCHANGED error
                ELSE Fail("fetch")
    /\ UNCHANGED <<manifest_data, metadata, segments, media_paths, base_url, tpl_ns, result>>
    /\ UNCHANGED <<arvars, fpvars, btvars>>

\* lines 104-109: one pass of the loop; the loop ends when every segment is in
_download_dash_segment ==
    /\ pc = "seg"
    /\ Len(media_paths) < Len(segments)
    /\ \E o \in Outcomes :
         LET i == Len(media_paths) + 1
             url == Url(base_url, tpl_ns, "media", i)
         IN  /\ requests' = Append(requests, url)
             /\ fs' = _download_file(fs, url, SegPath(metadata, i), o)
             /\ IF o.kind = "ok"
                THEN /\ media_paths' = Append(media_paths, SegPath(metadata, i))
                     /\ UNCHANGED <<pc, error>>
                ELSE Fail("fetch") /\ UNCHANGED media_paths
    /\ UNCHANGED <<manifest_data, metadata, segments, base_url, tpl_ns, result>>
    /\ UNCHANGED <<arvars, fpvars, btvars>>

\* lines 111-118: the concatenation; opening or writing the output may fail
_download_dash_concat ==
    /\ pc = "seg"
    /\ Len(media_paths) = Len(segments)
    /\ LET out_path == PrimaryArtistPath(metadata)
           parts == ConcatParts(fs[InitPath(metadata)],
                                [i \in DOMAIN media_paths |-> fs[media_paths[i]]])
       IN  \E ok \in BOOLEAN, k \in 0..Len(parts) :
             IF ok
             THEN /\ k = Len(parts)
                  /\ fs' = (out_path :> Concat(parts)) @@ fs
                  /\ pc' = "remove"
                  /\ UNCHANGED error
             ELSE /\ k < Len(parts)
                  /\ fs' = IF k = 0 THEN fs
                           ELSE (out_path :> Concat(SubSeq(parts, 1, k))) @@ fs
                  /\ Fail("io")
    /\ UNCHANGED <<manifest_data, metadata, requests, segments, media_paths,
                   base_url, tpl_ns, result>>
    /\ UNCHANGED <<arvars, fpvars, btvars>>

\* lines 120-124
_download_dash_remove ==
    /\ pc = "remove"
    /\ fs' = [p \in DOMAIN fs \ TempFiles(InitPath(metadata), media_paths) |-> fs[p]]
    /\ result' = PrimaryArtistPath(metadata)
    /\ pc' = "done"
    /\ UNCHANGED <<manifest_data, metadata, requests, segments, media_paths,
                   base_url, tpl_ns, error>>
    /\ UNCHANGED <<arvars, fpvars, btvars>>

DownloadIdle ==
    /\ pc = "idle"
    /\ manifest_data = [mime |-> "", manifest |-> FALSE, urls |-> <<>>, mpd |-> NoMPD]
    /\ metadata = [id |-> 0, title |-> <<>>, artist |-> ArtistE, artists |-> <<>>]
    /\ fs = <<>>
    /\ requests = <<>>
    /\ segments = <<>>
    /\ media_paths = <<>>
    /\ base_url = ""
    /\ tpl_ns = "none"
    /\ error = "none"
    /\ result = <<>>

ArtistIdle ==
    /\ apc = "idle"
    /\ tracks_list = <<>>
    /\ unique_tracks = <<>>
    /\ itunes_albums = {}
    /\ itunes_tracks = {}
    /\ verified_album_ids = {}
    /\ final_tracks = <<>>
    /\ discarded_albums = {}
    /\ sorted_tracks = <<>>

FingerprintIdle ==
    /\ fpc = "idle"
    /\ resp = [kind |-> "none", results |-> <<>>]
    /\ resp2 = [kind |-> "none", results |-> <<>>]
    /\ main_artist_id = 0
    /\ fp_error = "none"

BatchIdle ==
    /\ bpc = "idle"
    /\ selected = <<>>
    /\ requested = "LOSSLESS"
    /\ track_ix = 0
    /\ invoked = <<>>
    /\ endings = <<>>
    /\ tier = "LOSSLESS"
    /\ mirror = 1
    /\ attempt = 0
    /\ sent = <<>>
    /\ started = FALSE

\* A download_track call on an empty output directory.
Init ==
    /\ pc = "start"
    /\ manifest_data \in ManifestData
    /\ metadata \in Metadata
    /\ fs = <<>>
    /\ requests = <<>>
    /\ segments = <<>>
    /\ media_paths = <<>>
    /\ base_url = ""
    /\ tpl_ns = "none"
    /\ error = "none"
    /\ result = <<>>
    /\ ArtistIdle
    /\ FingerprintIdle
    /\ BatchIdle

Next ==
    \/ download_track
    \/ _download_bts
    \/ _download_dash_parse
    \/ _download_dash_single
    \/ _download_dash_init
    \/ _download_dash_segment
    \/ _download_dash_concat
    \/ _download_dash_remove

Spec == Init /\ [][Next]_vars

----------------------------------------------------------------------------
(* mora/cli.py: normalize_str *)

Lower(c) ==
    CASE c = "A" -> "a" [] c = "B" -> "b" [] c = "C" -> "c" [] c = "E" -> "e"
      [] c = "G" -> "g" [] c = "X" -> "x" [] c = "Z" -> "z"
      [] OTHER -> c

\* s.lower().strip()
RECURSIVE LStrip(_)
LStrip(s) == IF s # <<>> /\ s[1] = " " THEN LStrip(Tail(s)) ELSE s

RECURSIVE RStrip(_)
RStrip(s) ==
    IF s # <<>> /\ s[Len(s)] = " " THEN RStrip(SubSeq(s, 1, Len(s) - 1)) ELSE s

LowerStrip(s) == RStrip(LStrip([i \in DOMAIN s |-> Lower(s[i])]))

\* re.sub(r'\(.*?\)', '', s): from each opening character that has a closing one
\* after it, up to the first such closing character.
RECURSIVE StripGroups(_, _, _)
StripGroups(s, open, close) ==
    IF s = <<>> THEN <<>>
    ELSE IF s[1] = open /\ \E j \in 2..Len(s) : s[j] = close
         THEN LET j == CHOOSE j \in 2..Len(s) :
                          s[j] = close /\ \A k \in 2..(j - 1) : s[k] # close
              IN  StripGroups(SubSeq(s, j + 1, Len(s)), open, close)
         ELSE <<s[1]>> \o StripGroups(Tail(s), open, close)

\* unicodedata.normalize('NFD', s) without the characters of category Mn
Unaccent(c) == IF c = "é" THEN "e" ELSE c

AlphaNum == {"a", "b", "c", "d", "e", "f", "g", "h", "i", "j", "k", "l", "m", "n",
             "o", "p", "q", "r", "s", "t", "u", "v", "w", "x", "y", "z",
             "0", "1", "2", "3", "4", "5", "6", "7", "8", "9"}

\* lines 180-188
normalize_str(s) ==
    LET s1 == LowerStrip(s)
        s2 == StripGroups(s1, "(", ")")
        s3 == StripGroups(s2, "[", "]")
        s4 == [i \in DOMAIN s3 |-> Unaccent(s3[i])]
    IN  SelectSeq(s4, LAMBDA c : c \in AlphaNum)

----------------------------------------------------------------------------
(* mora/cli.py: deduplicate_tracks *)

\* line 67: qualities.get(audioQuality, 0)
QualityRank(q) ==
    CASE q = "LOW" -> 1 [] q = "HIGH" -> 2 [] q = "LOSSLESS" -> 3
      [] q = "HI_RES_LOSSLESS" -> 4 [] OTHER -> 0

\* lines 70-72
TrackKey(t) == <<normalize_str(t.title), normalize_str(t.album.title), t.explicit>>

\* A record of equal quality replacing the one kept.
ReplacesOnTie(new_q, curr_q) == new_q >= curr_q

\* line 79: if new_q > curr_q
Replaces(new_q, curr_q) == new_q > curr_q

\* lines 69-80: unique_tracks as the sequence of its (key, value) items, a key
\* keeping the place of its first insertion.
RECURSIVE DedupLoop(_, _)
DedupLoop(list, items) ==
    IF list = <<>> THEN items
    ELSE LET t == Head(list)
             at == {i \in DOMAIN items : items[i].key = TrackKey(t)}
         IN  IF at = {}
             THEN DedupLoop(Tail(list), Append(items, [key |-> TrackKey(t), value |-> t]))
             ELSE LET i == CHOOSE i \in at : TRUE
                  IN  IF Replaces(QualityRank(t.audioQuality),
                                  QualityRank(items[i].value.audioQuality))
                      THEN DedupLoop(Tail(list), [items EXCEPT ![i].value = t])
                      ELSE DedupLoop(Tail(list), items)

\* lines 64-82
deduplicate_tracks(list) ==
    LET items == DedupLoop(list, <<>>)
    IN  [i \in DOMAIN items |-> items[i].value]

----------------------------------------------------------------------------
(* Track records *)

None == <<>>
Some(v) == <<v>>

\* x or 0, for an Optional[int]
OrZero(x) == IF x = None THEN 0 ELSE x[1]

TAb == <<"A", "b">>
TAbX == <<"a", "b", " ", "(", "x", ")">>
TCd == <<"C", "d">>
TEf == <<"E", "f">>
TGh == <<"G", "h">>

AlbumX == [id |-> 10, title |-> <<"X">>]
AlbumXe == [id |-> 10, title |-> <<"[", "1", "]", "x", "é">>]
AlbumY == [id |-> 20, title |-> <<"Y">>]
AlbumZ == [id |-> 40, title |-> <<"Z">>]
AlbumZ2 == [id |-> 50, title |-> <<"Z">>]
AlbumXz == [id |-> 60, title |-> <<"X", "z">>]

\* The artist picked in the artist flow, the same artist as another record of the
\* listing spells it, and another artist of the same name.
Picked == [id |-> 1, name |-> <<"A", "b">>]
PickedAlt == [id |-> 1, name |-> <<" ", "a", "B">>]
Namesake == [id |-> 2, name |-> <<"A", "b">>]

Track(title, album, quality, explicit, popularity, number, artist) ==
    [id |-> 0, title |-> title, album |-> album, audioQuality |-> quality,
     explicit |-> explicit, popularity |-> popularity, trackNumber |-> number,
     artist |-> artist, artists |-> <<artist>>]

\* The records a list is drawn from; a record's id is its place in the list.
Numbered(list) == [i \in DOMAIN list |-> [list[i] EXCEPT !.id = i]]

Lists(pool) == {Numbered(l) : l \in SeqsUpTo(pool, MaxTracks)}

DedupPool ==
    {Track(t, AlbumX, q, FALSE, None, None, Picked) :
        t \in {TAb, TAbX}, q \in {"LOW", "HIGH", "LOSSLESS", "HI_RES_LOSSLESS", "NONE"}}
    \cup {Track(TAb, AlbumXe, "HIGH", FALSE, None, None, Picked),
          Track(TAb, AlbumY, "LOSSLESS", FALSE, None, None, Picked),
          Track(TAb, AlbumX, "LOW", TRUE, None, None, Picked),
          Track(TAb, AlbumX, "HI_RES_LOSSLESS", TRUE, None, None, Picked),
          Track(TCd, AlbumX, "HIGH", FALSE, None, None, Picked)}

\* deduplicate_tracks applied to a list
Deduplicate ==
    /\ apc = "dedup"
    /\ unique_tracks' = deduplicate_tracks(tracks_list)
    /\ apc' = "deduped"
    /\ UNCHANGED <<tracks_list, itunes_albums, itunes_tracks, verified_album_ids,
                   final_tracks, discarded_albums, sorted_tracks>>
    /\ UNCHANGED <<dlvars, fpvars, btvars>>

InitDedup ==
    /\ DownloadIdle
    /\ FingerprintIdle
    /\ BatchIdle
    /\ apc = "dedup"
    /\ tracks_list \in Lists(DedupPool)
    /\ unique_tracks = <<>>
    /\ itunes_albums = {}
    /\ itunes_tracks = {}
    /\ verified_album_ids = {}
    /\ final_tracks = <<>>
    /\ discarded_albums = {}
    /\ sorted_tracks = <<>>

NextDedup == Deduplicate

SpecDedup == InitDedup /\ [][NextDedup]_vars

----------------------------------------------------------------------------
(* mora/cli.py: _handle_artist_search, from the artist's listing on *)

PopularityFloor == 5        \* line 308
PopularityVerified == 50    \* line 316

\* lines 279-286: the tracks naming the picked artist, by id and name
IsStrict(t, artist) ==
    \E a \in Range(t.artists) \cup {t.artist} :
        /\ a.name # <<>>
        /\ a.id # 0
        /\ a.id = artist.id
        /\ LowerStrip(a.name) = LowerStrip(artist.name)

\* line 289: {t.id: t for t in unique_tracks_list}.values()
RECURSIVE ById(_, _)
ById(list, items) ==
    IF list = <<>> THEN items
    ELSE LET t == Head(list)
             at == {i \in DOMAIN items : items[i].id = t.id}
         IN  IF at = {} THEN ById(Tail(list), Append(items, t))
             ELSE ById(Tail(list), [items EXCEPT ![CHOOSE i \in at : TRUE] = t])

\* The first pass looking at album titles alone.
VerifiedAlbumIdsByAlbum(tracks, albums, titles) ==
    IF albums # {} \/ titles # {}
    THEN {tracks[i].album.id : i \in
            {i \in DOMAIN tracks : normalize_str(tracks[i].album.title) \in albums}}
    ELSE {}

\* lines 293-300
VerifiedAlbumIds(tracks, albums, titles) ==
    IF albums # {} \/ titles # {}
    THEN {tracks[i].album.id : i \in
            {i \in DOMAIN tracks :
                \/ normalize_str(tracks[i].album.title) \in albums
                \/ normalize_str(tracks[i].title) \in titles}}
    ELSE {}

\* The threshold of line 308 taken as exclusive.
PopularOnlyStrict(t) == OrZero(t.popularity) > PopularityFloor

\* line 308: (t.popularity or 0) >= 5
PopularOnly(t) == OrZero(t.popularity) >= PopularityFloor

\* line 316: t.popularity and t.popularity >= 50
PopularEnough(t) == t.popularity # None /\ t.popularity[1] # 0
                    /\ t.popularity[1] >= PopularityVerified

\* lines 306-316
is_verified(t, albums, titles, album_ids) ==
    IF albums = {} /\ titles = {}
    THEN PopularOnly(t)
    ELSE \/ t.album.id \in album_ids
         \/ normalize_str(t.title) \in titles
         \/ normalize_str(t.album.title) \in albums
         \/ PopularEnough(t)

\* The reference sets get_itunes_fingerprint may return for the picked artist.
References == {[albums |-> a, tracks |-> t] : a \in {{}, {<<"x">>}}, t \in {{}, {<<"a", "b">>}}}

ArtistPool ==
    {Track(TAb, AlbumZ, "LOW", FALSE, Some(2), Some(1), Picked),
     Track(TAbX, AlbumZ, "LOSSLESS", FALSE, Some(2), Some(1), PickedAlt),
     Track(TCd, AlbumZ, "LOSSLESS", FALSE, Some(4), Some(2), Picked),
     Track(TEf, AlbumZ, "LOSSLESS", FALSE, Some(50), None, Picked),
     Track(TGh, AlbumZ, "LOSSLESS", FALSE, Some(49), Some(3), Picked),
     Track(TCd, AlbumX, "LOSSLESS", FALSE, None, Some(1), Picked),
     Track(TEf, AlbumX, "LOSSLESS", FALSE, Some(5), Some(2), Picked),
     Track(TCd, AlbumZ2, "LOSSLESS", FALSE, Some(80), Some(1), Picked),
     Track(TGh, AlbumZ2, "LOSSLESS", FALSE, Some(10), Some(2), Picked),
     Track(TGh, AlbumXz, "LOSSLESS", FALSE, Some(50), Some(1), Picked),
     Track(TEf, AlbumZ, "LOSSLESS", FALSE, Some(50), Some(1), Namesake)}

\* The characters normalize_str keeps, in code point order.
AlphaOrder == <<"0", "1", "2", "3", "4", "5", "6", "7", "8", "9",
                "a", "b", "c", "d", "e", "f", "g", "h", "i", "j", "k", "l", "m",
                "n", "o", "p", "q", "r", "s", "t", "u", "v", "w", "x", "y", "z">>

CharRank(c) == CHOOSE i \in DOMAIN AlphaOrder : AlphaOrder[i] = c

\* a < b for two str values
RECURSIVE StrLess(_, _)
StrLess(a, b) ==
    IF b = <<>> THEN FALSE
    ELSE IF a = <<>> THEN TRUE
    ELSE IF a[1] = b[1] THEN StrLess(Tail(a), Tail(b))
    ELSE CharRank(a[1]) < CharRank(b[1])

\* lines 329 and 334-335: normalize_str(t.album.title if t.album else "")
AlbumKey(t) == normalize_str(t.album.title)

\* lines 326-331
RECURSIVE album_pops(_, _)
album_pops(tracks, pops) ==
    IF tracks = <<>> THEN pops
    ELSE LET t == Head(tracks)
             al_key == AlbumKey(t)
             pop == OrZero(t.popularity)
         IN  IF al_key \notin DOMAIN pops \/ pop > pops[al_key]
             THEN album_pops(Tail(tracks),
                             [k \in DOMAIN pops \cup {al_key} |->
                                 IF k = al_key THEN pop ELSE pops[k]])
             ELSE album_pops(Tail(tracks), pops)

\* The sort key with the album's popularity ascending.
SortKeyPopularityAscending(x, pops) ==
    <<IF AlbumKey(x) \in DOMAIN pops THEN pops[AlbumKey(x)] ELSE 0,
      AlbumKey(x), OrZero(x.trackNumber)>>

\* lines 333-337: the key of sorted()
SortKey(x, pops) ==
    <<-(IF AlbumKey(x) \in DOMAIN pops THEN pops[AlbumKey(x)] ELSE 0),
      AlbumKey(x), OrZero(x.trackNumber)>>

\* k1 < k2 for two keys (int, str, int)
KeyLess(k1, k2) ==
    \/ k1[1] < k2[1]
    \/ /\ k1[1] = k2[1]
       /\ \/ StrLess(k1[2], k2[2])
          \/ k1[2] = k2[2] /\ k1[3] < k2[3]

\* sorted(list, key=...): ascending, records of equal keys in their order in list
RECURSIVE sorted(_, _, _)
sorted(list, pops, done) ==
    IF list = <<>> THEN done
    ELSE LET x == Head(list)
             before == {i \in DOMAIN done :
                          ~KeyLess(SortKey(x, pops), SortKey(done[i], pops))}
             n == Cardinality(before)
         IN  sorted(Tail(list), pops,
                    SubSeq(done, 1, n) \o <<x>> \o SubSeq(done, n + 1, Len(done)))

\* lines 278-289
FilterAndDeduplicate ==
    /\ apc = "listing"
    /\ unique_tracks' =
         ById(deduplicate_tracks(SelectSeq(tracks_list, LAMBDA t : IsStrict(t, Picked))), <<>>)
    /\ apc' = "fingerprint"
    /\ UNCHANGED <<tracks_list, itunes_albums, itunes_tracks, verified_album_ids,
                   final_tracks, discarded_albums, sorted_tracks>>
    /\ UNCHANGED <<dlvars, fpvars, btvars>>

\* line 291
Fingerprint ==
    /\ apc = "fingerprint"
    /\ \E ref \in References :
         /\ itunes_albums' = ref.albums
         /\ itunes_tracks' = ref.tracks
    /\ apc' = "albums"
    /\ UNCHANGED <<tracks_list, unique_tracks, verified_album_ids, final_tracks,
                   discarded_albums, sorted_tracks>>
    /\ UNCHANGED <<dlvars, fpvars, btvars>>

\* lines 293-300
VerifyAlbums ==
    /\ apc = "albums"
    /\ verified_album_ids' = VerifiedAlbumIds(unique_tracks, itunes_albums, itunes_tracks)
    /\ apc' = "classify"
    /\ UNCHANGED <<tracks_list, unique_tracks, itunes_albums, itunes_tracks, final_tracks,
                   discarded_albums, sorted_tracks>>
    /\ UNCHANGED <<dlvars, fpvars, btvars>>

\* lines 302-321
Classify ==
    /\ apc = "classify"
    /\ LET ok(t) == is_verified(t, itunes_albums, itunes_tracks, verified_album_ids)
       IN  /\ final_tracks' = SelectSeq(unique_tracks, ok)
           /\ discarded_albums' =
                {unique_tracks[i].album.title :
                    i \in {i \in DOMAIN unique_tracks : ~ok(unique_tracks[i])}}
    /\ apc' = "classified"
    /\ UNCHANGED <<tracks_list, unique_tracks, itunes_albums, itunes_tracks,
                   verified_album_ids, sorted_tracks>>
    /\ UNCHANGED <<dlvars, fpvars, btvars>>

\* The reconciliation without the fallback.
FallBackKeepsEmpty ==
    /\ apc = "classified"
    /\ apc' = "selected"
    /\ UNCHANGED <<tracks_list, unique_tracks, itunes_albums, itunes_tracks,
                   verified_album_ids, final_tracks, discarded_albums, sorted_tracks>>
    /\ UNCHANGED <<dlvars, fpvars, btvars>>

\* lines 323-324
FallBack ==
    /\ apc = "classified"
    /\ final_tracks' = IF final_tracks = <<>> THEN unique_tracks ELSE final_tracks
    /\ apc' = "selected"
    /\ UNCHANGED <<tracks_list, unique_tracks, itunes_albums, itunes_tracks,
                   verified_album_ids, discarded_albums, sorted_tracks>>
    /\ UNCHANGED <<dlvars, fpvars, btvars>>

\* lines 326-337
Sort ==
    /\ apc = "selected"
    /\ sorted_tracks' = sorted(final_tracks, album_pops(final_tracks, <<>>), <<>>)
    /\ apc' = "sorted"
    /\ UNCHANGED <<tracks_list, unique_tracks, itunes_albums, itunes_tracks,
                   verified_album_ids, final_tracks, discarded_albums>>
    /\ UNCHANGED <<dlvars, fpvars, btvars>>

\* The artist's listing holds at least one track (lines 274-276).
InitArtist ==
    /\ DownloadIdle
    /\ FingerprintIdle
    /\ BatchIdle
    /\ apc = "listing"
    /\ tracks_list \in Lists(ArtistPool) \ {<<>>}
    /\ unique_tracks = <<>>
    /\ itunes_albums = {}
    /\ itunes_tracks = {}
    /\ verified_album_ids = {}
    /\ final_tracks = <<>>
    /\ discarded_albums = {}
    /\ sorted_tracks = <<>>

NextArtist ==
    \/ FilterAndDeduplicate
    \/ Fingerprint
    \/ VerifyAlbums
    \/ Classify
    \/ FallBack
    \/ Sort

SpecArtist == InitArtist /\ [][NextArtist]_vars

----------------------------------------------------------------------------
(* mora/cli.py: get_itunes_fingerprint *)

\* An artistName of JSON null.
JsonNull == <<"null">>

\* A result item: its artistName, artistId (0: none), collectionName and trackName
\* (<<>>: none); bad: the collectionName is a number.
Item(name, id, collection, track, bad) ==
    [artistName |-> name, artistId |-> id, collectionName |-> collection,
     trackName |-> track, bad |-> bad]

\* The items a search for "Ab" may answer with.
SearchPool ==
    {Item(<<"A", "b">>, 1, <<"X">>, <<"A", "b">>, FALSE),
     Item(<<"A", "B">>, 2, <<"Z">>, <<>>, FALSE),
     Item(<<"A", "b", " ", "X">>, 3, <<"G">>, <<"C", "d">>, FALSE),
     Item(<<"C", "d">>, 4, <<"E">>, <<"E", "f">>, FALSE),
     Item(<<"A", "b">>, 1, <<>>, <<>>, TRUE),
     Item(<<"A", "b">>, 0, <<"C">>, <<>>, FALSE),
     Item(JsonNull, 1, <<"X">>, <<>>, FALSE)}

\* The items a lookup may answer with: the artist, a song, a song whose
\* collectionName is a number.
LookupPool ==
    {Item(<<"A", "b">>, 0, <<>>, <<>>, FALSE),
     Item(<<"A", "b">>, 0, <<"X">>, <<"G", "h">>, FALSE),
     Item(<<"A", "b">>, 0, <<>>, <<>>, TRUE)}

\* What a request comes back with: an exception (also of resp.json()), a status
\* other than 200, or a body.
Responses(pool) ==
    {[kind |-> "raise", results |-> <<>>], [kind |-> "status", results |-> <<>>]}
    \cup {[kind |-> "ok", results |-> r] : r \in SeqsUpTo(pool, MaxItems)}

\* The lookup's listing is the listing of the artist asked for: its titles end
\* with the artist's id.
Listing(results, id) ==
    [i \in DOMAIN results |->
        [results[i] EXCEPT
            !.artistId = id,
            !.collectionName = IF @ = <<>> THEN @ ELSE @ \o <<ToString(id)>>,
            !.trackName = IF @ = <<>> THEN @ ELSE @ \o <<ToString(id)>>]]

\* line 202: artist_name.lower()
LowerText(t) == [i \in DOMAIN t |-> Lower(t[i])]

\* sub in text, for two str values
Contains(sub, text) ==
    \E i \in 1..(Len(text) + 1) :
        /\ i + Len(sub) - 1 <= Len(text)
        /\ SubSeq(text, i, i + Len(sub) - 1) = sub

\* lines 204-208: the dict artist_ids, as its (key, count) pairs in insertion order
RECURSIVE CountIds(_, _, _)
CountIds(results, target_name, ids) ==
    IF results = <<>> THEN ids
    ELSE LET item == Head(results)
             at == {i \in DOMAIN ids : ids[i].id = item.artistId}
         IN  IF LowerText(item.artistName) = target_name /\ item.artistId # 0
             THEN IF at = {}
                  THEN CountIds(Tail(results), target_name,
                                Append(ids, [id |-> item.artistId, n |-> 1]))
                  ELSE CountIds(Tail(results), target_name,
                                [i \in DOMAIN ids |->
                                    IF i \in at THEN [ids[i] EXCEPT !.n = @ + 1]
                                    ELSE ids[i]])
             ELSE CountIds(Tail(results), target_name, ids)

\* line 213: max(artist_ids, key=artist_ids.get), the first of the keys of the
\* largest count
MaxByCount(ids) ==
    LET best == {i \in DOMAIN ids : \A j \in DOMAIN ids : ids[j].n <= ids[i].n}
    IN  ids[CHOOSE i \in best : \A j \in best : i <= j].id

\* lines 219-222 and 229-232: the titles of one item join the sets; normalize_str
\* of a number raises
AddTitles(item, sets) ==
    IF item.bad THEN [sets EXCEPT !.raised = TRUE]
    ELSE [albums |-> IF item.collectionName # <<>>
                     THEN sets.albums \cup {normalize_str(item.collectionName)}
                     ELSE sets.albums,
          tracks |-> IF item.trackName # <<>>
                     THEN sets.tracks \cup {normalize_str(item.trackName)}
                     ELSE sets.tracks,
          raised |-> FALSE]

\* lines 218-222: the loop over the lookup's results, left at the first exception
RECURSIVE AddListing(_, _)
AddListing(results, sets) ==
    IF results = <<>> \/ sets.raised THEN sets
    ELSE AddListing(Tail(results), AddTitles(Head(results), sets))

\* lines 225-228: the results of the search folded in
FoldsIn(item, target_name, main) ==
    /\ Contains(target_name, LowerText(item.artistName))
    /\ ~(LowerText(item.artistName) = target_name /\ item.artistId # main)

\* lines 224-232: the loop over the search's results, left at the first exception
RECURSIVE AddResults(_, _, _, _)
AddResults(results, target_name, main, sets) ==
    IF results = <<>> \/ sets.raised THEN sets
    ELSE AddResults(Tail(results), target_name, main,
                    IF FoldsIn(Head(results), target_name, main)
                    THEN AddTitles(Head(results), sets)
                    ELSE sets)

\* The name get_itunes_fingerprint is called with (line 291).
Target == LowerText(Picked.name)

\* lines 196-211: the search request and the choice of the artist id
Search ==
    /\ fpc = "search"
    /\ IF resp.kind = "raise" \/ (resp.kind = "ok" /\ \E i \in DOMAIN resp.results :
                                      resp.results[i].artistName = JsonNull)
       THEN /\ fp_error' = "caught"
            /\ fpc' = "returned"
            /\ UNCHANGED main_artist_id
       ELSE IF resp.kind = "status" \/ CountIds(resp.results, Target, <<>>) = <<>>
       THEN /\ fpc' = "returned"
            /\ UNCHANGED <<main_artist_id, fp_error>>
       ELSE /\ main_artist_id' = MaxByCount(CountIds(resp.results, Target, <<>>))
            /\ fpc' = "lookup"
            /\ UNCHANGED fp_error
    /\ UNCHANGED <<resp, resp2>>
    /\ UNCHANGED <<dlvars, arvars, btvars>>

\* lines 214-222: the lookup request and its titles
Lookup ==
    /\ fpc = "lookup"
    /\ LET sets == AddListing(Listing(resp2.results, main_artist_id),
                              [albums |-> itunes_albums, tracks |-> itunes_tracks,
                               raised |-> FALSE])
       IN  IF resp2.kind = "raise"
           THEN /\ fp_error' = "caught"
                /\ fpc' = "returned"
                /\ UNCHANGED <<itunes_albums, itunes_tracks>>
           ELSE IF resp2.kind = "status"
           THEN /\ fpc' = "fold"
                /\ UNCHANGED <<itunes_albums, itunes_tracks, fp_error>>
           ELSE /\ itunes_albums' = sets.albums
                /\ itunes_tracks' = sets.tracks
                /\ fp_error' = IF sets.raised THEN "caught" ELSE fp_error
                /\ fpc' = IF sets.raised THEN "returned" ELSE "fold"
    /\ UNCHANGED <<resp, resp2, main_artist_id>>
    /\ UNCHANGED <<apc, tracks_list, unique_tracks, verified_album_ids, final_tracks,
                   discarded_albums, sorted_tracks>>
    /\ UNCHANGED <<dlvars, btvars>>

\* lines 224-235: the search's results folded in, and the return
FoldIn ==
    /\ fpc = "fold"
    /\ LET sets == AddResults(resp.results, Target, main_artist_id,
                              [albums |-> itunes_albums, tracks |-> itunes_tracks,
                               raised |-> FALSE])
       IN  /\ itunes_albums' = sets.albums
           /\ itunes_tracks' = sets.tracks
           /\ fp_error' = IF sets.raised THEN "caught" ELSE fp_error
    /\ fpc' = "returned"
    /\ UNCHANGED <<resp, resp2, main_artist_id>>
    /\ UNCHANGED <<apc, tracks_list, unique_tracks, verified_album_ids, final_tracks,
                   discarded_albums, sorted_tracks>>
    /\ UNCHANGED <<dlvars, btvars>>

\* A get_itunes_fingerprint call, with what its two requests will come back with.
InitFingerprint ==
    /\ DownloadIdle
    /\ ArtistIdle
    /\ fpc = "search"
    /\ resp \in Responses(SearchPool)
    /\ resp2 \in Responses(LookupPool)
    /\ main_artist_id = 0
    /\ fp_error = "none"
    /\ BatchIdle

NextFingerprint ==
    \/ Search
    \/ Lookup
    \/ FoldIn

SpecFingerprint == InitFingerprint /\ [][NextFingerprint]_vars

----------------------------------------------------------------------------
(* mora/api.py: _get, get_track_manifest; mora/cli.py: _download_track and the *)
(* loop over the selected tracks                                             *)

retries == 3    \* api.py line 7

\* api.py line 19
track_bases == <<"https://hund.qqdl.site", "https://katze.qqdl.site">>

\* cli.py line 390
AltQuality(quality) == IF quality = "LOSSLESS" THEN "HI_RES_LOSSLESS" ELSE "LOSSLESS"

\* What one request of get_track_manifest comes to: a body with a manifest, a body
\* without one, a RequestException, or a body that is not an object with an object
\* under "data" (data.get or inner.get raises AttributeError).
Answers == {"manifest", "empty", "exception", "malformed"}

\* The track ids a selection is made of.
TrackIds == {7, 8}

\* The error is left to propagate: the loop is abandoned.
ReportedAborting(step) ==
    /\ endings' = Append(endings, step)
    /\ bpc' = IF step = "saved" THEN "next" ELSE "done"
    /\ tier' = requested
    /\ mirror' = 1
    /\ attempt' = 0
    /\ sent' = <<>>
    /\ started' = FALSE

\* cli.py lines 408-411, 362: the success or the error is printed, _download_track
\* returns and the loop goes on
Reported(step) ==
    /\ endings' = Append(endings, step)
    /\ bpc' = "next"
    /\ tier' = requested
    /\ mirror' = 1
    /\ attempt' = 0
    /\ sent' = <<>>
    /\ started' = FALSE

\* cli.py lines 362-363, 384: _download_track is called for the next selected track
Invoke ==
    /\ bpc = "next"
    /\ track_ix < Len(selected)
    /\ track_ix' = track_ix + 1
    /\ invoked' = Append(invoked, selected[track_ix + 1])
    /\ bpc' = "info"
    /\ UNCHANGED <<selected, requested, endings, tier, mirror, attempt, sent, started>>
    /\ UNCHANGED <<dlvars, arvars, fpvars>>

\* cli.py line 362: the selection is exhausted
Finish ==
    /\ bpc = "next"
    /\ track_ix = Len(selected)
    /\ bpc' = "done"
    /\ UNCHANGED <<selected, requested, track_ix, invoked, endings, tier, mirror,
                   attempt, sent, started>>
    /\ UNCHANGED <<dlvars, arvars, fpvars>>

\* cli.py line 386: client.get_track_info returns or raises
GetInfo ==
    /\ bpc = "info"
    /\ \/ /\ bpc' = "manifest"
          /\ UNCHANGED <<endings, tier, mirror, attempt, sent, started>>
       \/ Reported("info")
    /\ UNCHANGED <<selected, requested, track_ix, invoked>>
    /\ UNCHANGED <<dlvars, arvars, fpvars>>

\* get_track_manifest raised: cli.py lines 389-392 at the requested quality, lines
\* 410-411 at the alternate one
ManifestFailed(log) ==
    IF tier = requested
    THEN /\ tier' = AltQuality(requested)
         /\ mirror' = 1
         /\ attempt' = 0
         /\ sent' = log
         /\ UNCHANGED <<bpc, endings, started>>
    ELSE Reported("manifest")

\* api.py lines 75 and 83-85: the next base, or the exception after the last one
NextBase(log) ==
    IF mirror < Len(track_bases)
    THEN /\ mirror' = mirror + 1
         /\ attempt' = 0
         /\ sent' = log
         /\ UNCHANGED <<bpc, endings, tier, started>>
    ELSE ManifestFailed(log)

\* api.py lines 21-31 and 74-85, cli.py lines 387-392: one request of
\* get_track_manifest and what follows from its answer
Get ==
    /\ bpc = "manifest"
    /\ \E answer \in Answers :
         LET log == Append(sent, [quality |-> tier, base |-> track_bases[mirror],
                                  answer |-> answer])
         IN  CASE answer = "manifest" ->
                   /\ bpc' = "assemble"
                   /\ sent' = log
                   /\ UNCHANGED <<endings, tier, mirror, attempt, started>>
               [] answer = "empty" -> NextBase(log)
               [] answer = "exception" ->
                   IF attempt = retries - 1
                   THEN NextBase(log)
                   ELSE /\ attempt' = attempt + 1
                        /\ sent' = log
                        /\ UNCHANGED <<bpc, endings, tier, mirror, started>>
               [] answer = "malformed" -> ManifestFailed(log)
    /\ UNCHANGED <<selected, requested, track_ix, invoked>>
    /\ UNCHANGED <<dlvars, arvars, fpvars>>

\* cli.py line 395: downloader.download_track is called
Assemble ==
    /\ bpc = "assemble"
    /\ started' = TRUE
    /\ bpc' = "assembling"
    /\ UNCHANGED <<selected, requested, track_ix, invoked, endings, tier, mirror,
                   attempt, sent>>
    /\ UNCHANGED <<dlvars, arvars, fpvars>>

\* cli.py line 395: downloader.download_track returns the path or raises
Assembled ==
    /\ bpc = "assembling"
    /\ \/ /\ bpc' = "tag"
          /\ UNCHANGED <<endings, tier, mirror, attempt, sent, started>>
       \/ Reported("assembly")
    /\ UNCHANGED <<selected, requested, track_ix, invoked>>
    /\ UNCHANGED <<dlvars, arvars, fpvars>>

\* cli.py lines 397-408: the cover and writer.write_flac, which returns or raises
Tag ==
    /\ bpc = "tag"
    /\ \/ Reported("saved")
       \/ Reported("tagging")
    /\ UNCHANGED <<selected, requested, track_ix, invoked>>
    /\ UNCHANGED <<dlvars, arvars, fpvars>>

\* cli.py lines 360-362: a selection of tracks and the quality asked for
InitBatch ==
    /\ DownloadIdle
    /\ ArtistIdle
    /\ FingerprintIdle
    /\ bpc = "next"
    /\ selected \in SeqsUpTo(TrackIds, MaxSelected)
    /\ requested \in {"LOSSLESS", "HI_RES_LOSSLESS"}
    /\ track_ix = 0
    /\ invoked = <<>>
    /\ endings = <<>>
    /\ tier = requested
    /\ mirror = 1
    /\ attempt = 0
    /\ sent = <<>>
    /\ started = FALSE

NextBatch ==
    \/ Invoke
    \/ Finish
    \/ GetInfo
    \/ Get
    \/ Assemble
    \/ Assembled
    \/ Tag

SpecBatch == InitBatch /\ [][NextBatch]_vars

----------------------------------------------------------------------------
(* Properties of download_track *)

Dash == manifest_data.mime = "application/dash+xml" /\ manifest_data.manifest

Tree == manifest_data.mpd.tree

\* _download_dash has finished its structural lookups.
Parsed == Dash /\ pc \notin {"start", "dash"}

\* A run of _download_dash on a manifest that holds a SegmentTimeline.
TimelineRun == Parsed /\ Tree.timeline # {}

NoTempLeft == \A p \in DOMAIN fs : ~IsTemp(p)

\* The sum over the entries of (r + 1), r absent meaning 0.
RECURSIVE SegmentCount(_)
SegmentCount(S) ==
    IF S = <<>> THEN 0
    ELSE (IF S[1].hasR THEN S[1].r + 1 ELSE 1) + SegmentCount(Tail(S))

\* The entry covering position i: the first whose running total reaches i.
Covering(S, i) ==
    CHOOSE k \in 1..Len(S) :
        /\ SegmentCount(SubSeq(S, 1, k - 1)) < i
        /\ i <= SegmentCount(SubSeq(S, 1, k))

\* The requests of a complete assembly of n segments: init, then media 1..n.
ExpectedRequests(n) ==
    <<Url(base_url, tpl_ns, "init", 0)>> \o [i \in 1..n |-> Url(base_url, tpl_ns, "media", i)]

\* The temporary file the j-th request of an assembly is written to.
TempOf(j) == IF j = 1 THEN InitPath(metadata) ELSE SegPath(metadata, j - 1)

\* C1: when the initialization fetch, a media segment fetch or the concatenation of
\* a timeline assembly fails, no <id>_init.m4s or <id>_seg_<i>.m4s file is left in
\* the output directory as the error leaves _download_dash.
C1_NoTempAfterFailure == (TimelineRun /\ pc = "failed") => NoTempLeft

\* C2: in a timeline assembly of N segments the requests are the initialization
\* segment, then media segments 1, 2, ..., N in ascending order, each made only
\* when every earlier one is completely on disk; on success the output holds the
\* initialization bytes followed by the bytes of segments 1..N, in that order.
C2_AscendingFetchAndLayout ==
    TimelineRun =>
        LET N == SegmentCount(Tree.S)
            expected == ExpectedRequests(N)
        IN  /\ Len(requests) <= N + 1
            /\ requests = SubSeq(expected, 1, Len(requests))
            /\ pc \in {"seg", "failed"} =>
                 \A j \in 1..(Len(requests) - 1) :
                    /\ TempOf(j) \in DOMAIN fs
                    /\ fs[TempOf(j)] = Body(requests[j])
            /\ pc = "done" =>
                 /\ requests = expected
                 /\ result \in DOMAIN fs
                 /\ fs[result] = Concat([j \in 1..(N + 1) |-> Body(expected[j])])

C2_Witness ==
    /\ TimelineRun
    /\ pc = "done"
    /\ Len(requests) = 5
    /\ Len(fs[result]) = 10

\* C3: after a successful download_track call the output directory holds exactly
\* one file written by the call, the file returned, and no temporary segment file.
C3_OneOutputNoTemps ==
    pc = "done" =>
        /\ result \in DOMAIN fs
        /\ ~IsTemp(result)
        /\ DOMAIN fs = {result}

C3_Witness ==
    /\ pc = "done"
    /\ TimelineRun
    /\ Len(media_paths) >= 2
    /\ DOMAIN fs = {result}

\* C4: a timeline with entries (d_k, r_k) expands to the sum over the entries of
\* (r_k + 1) segments, the duration at position i is the d of the entry covering
\* i, and a successful assembly fetches the media segments of indices 1 to that sum.
C4_TimelineExpansion ==
    (TimelineRun /\ pc # "failed") =>
        LET S == Tree.S
        IN  /\ Len(segments) = SegmentCount(S)
            /\ \A i \in 1..Len(segments) : segments[i] = S[Covering(S, i)].d
            /\ pc = "done" =>
                 [j \in 1..(Len(requests) - 1) |-> requests[j + 1].n]
                    = [i \in 1..SegmentCount(S) |-> i]

C4_Witness ==
    /\ pc = "done"
    /\ Tree.S = <<[d |-> 4, hasR |-> TRUE, r |-> 2], [d |-> 5, hasR |-> FALSE, r |-> 0]>>
    /\ segments = <<4, 4, 4, 5>>
    /\ [j \in 1..(Len(requests) - 1) |-> requests[j + 1].n] = <<1, 2, 3, 4>>

StructureErrors == {"Could not find Representation in MPD",
                    "Could not find SegmentTemplate",
                    "Missing attributes in SegmentTemplate"}

\* C5: a manifest with a Representation and a SegmentTemplate (with its attributes)
\* but no SegmentTimeline does not fail in _download_dash: only media segment 1 is
\* requested, straight to the destination, with no initialization request and no
\* temporary file, whether the elements are namespace-qualified or not.
C5_NoTimelineFallback ==
    (Parsed /\ Tree.rep # {} /\ Tree.tpl # {} /\ Tree.init /\ Tree.media
        /\ Tree.timeline = {}) =>
        /\ error \notin StructureErrors
        /\ NoTempLeft
        /\ \A j \in DOMAIN requests : requests[j].kind = "media" /\ requests[j].n = 1
        /\ pc \in {"done", "failed"} => Len(requests) = 1
        /\ pc = "done" => result \in DOMAIN fs /\ fs[result] = Body(requests[1])

\* The elements the manifest lacks, as the error naming each.
MissingElementErrors ==
    (IF manifest_data.mpd.base = {} THEN {"Could not find BaseURL"} ELSE {})
    \cup (IF Tree.rep = {} THEN {"Could not find Representation in MPD"} ELSE {})
    \cup (IF Tree.rep # {} /\ Tree.tpl = {} THEN {"Could not find SegmentTemplate"} ELSE {})

\* C6: _download_dash fails with a structure error naming the missing element,
\* before any request or file creation, whenever the manifest lacks a BaseURL, a
\* Representation or a SegmentTemplate.
C6_MissingElementFails ==
    (Parsed /\ MissingElementErrors # {}) =>
        /\ pc = "failed"
        /\ error \in MissingElementErrors
        /\ requests = <<>>
        /\ fs = <<>>

\* C7: the destination of a track is the sanitized "<primary artist> - <title>.flac"
\* on the direct-URL, the no-timeline and the timeline path alike, also when the
\* artists list holds more than one artist.
C7_SameDestination ==
    pc = "done" =>
        result = SelectSeq(Flac(metadata.artist.name, metadata.title),
                           LAMBDA c : c \notin IllegalChars)

----------------------------------------------------------------------------
(* Properties of deduplicate_tracks and of the classification *)

\* The audio-quality tiers, lowest first; a quality outside them ranks below all.
Tiers == <<"LOW", "HIGH", "LOSSLESS", "HI_RES_LOSSLESS">>

TierOf(q) == IF \E n \in DOMAIN Tiers : Tiers[n] = q
             THEN CHOOSE n \in DOMAIN Tiers : Tiers[n] = q
             ELSE 0

KeysOf(list) == {TrackKey(list[i]) : i \in DOMAIN list}

GroupOf(list, key) == {i \in DOMAIN list : TrackKey(list[i]) = key}

FirstOf(list, key) == CHOOSE i \in GroupOf(list, key) : \A j \in GroupOf(list, key) : i <= j

\* The place in the list of the record to keep for a key: of the highest tier in
\* its group and, among those, the first.
BestOf(list, key) ==
    CHOOSE i \in GroupOf(list, key) :
        \A j \in GroupOf(list, key) :
            \/ TierOf(list[i].audioQuality) > TierOf(list[j].audioQuality)
            \/ TierOf(list[i].audioQuality) = TierOf(list[j].audioQuality) /\ i <= j

\* C8: deduplicate_tracks returns one record per distinct key (normalized title,
\* normalized album title, explicit flag), in the order the keys first occur in the
\* input; the record of a key is the one of the highest tier in its group, the
\* first seen among those of equal tier.
C8_DedupKeepsFirstBest ==
    apc = "deduped" =>
        /\ Len(unique_tracks) = Cardinality(KeysOf(tracks_list))
        /\ KeysOf(unique_tracks) = KeysOf(tracks_list)
        /\ \A a, b \in DOMAIN unique_tracks :
             a < b => FirstOf(tracks_list, TrackKey(unique_tracks[a]))
                        < FirstOf(tracks_list, TrackKey(unique_tracks[b]))
        /\ \A a \in DOMAIN unique_tracks :
             unique_tracks[a] = tracks_list[BestOf(tracks_list, TrackKey(unique_tracks[a]))]

C8_Witness ==
    /\ apc = "deduped"
    /\ Len(tracks_list) = 3
    /\ tracks_list[1].audioQuality = "LOW"
    /\ tracks_list[3].audioQuality = "LOSSLESS"
    /\ [i \in DOMAIN unique_tracks |-> unique_tracks[i].id] = <<3, 2>>

IsFinal(t) == t \in Range(final_tracks)

NoReference == itunes_albums = {} /\ itunes_tracks = {}

\* C9: with both reference sets empty a track is Verified exactly when its
\* popularity (absent: 0) is at least 5; with reference data it is Verified exactly
\* when its album id is in the verified-album set, or its normalized title is a
\* reference title, or its normalized album title is a reference album, or its
\* popularity is at least 50.
C9_Classification ==
    apc = "classified" =>
        \A i \in DOMAIN unique_tracks :
            LET t == unique_tracks[i]
            IN  IsFinal(t) <=>
                  IF NoReference
                  THEN OrZero(t.popularity) >= 5
                  ELSE \/ t.album.id \in verified_album_ids
                       \/ normalize_str(t.title) \in itunes_tracks
                       \/ normalize_str(t.album.title) \in itunes_albums
                       \/ OrZero(t.popularity) >= 50

C9_Witness ==
    /\ apc = "classified"
    /\ NoReference
    /\ \E i, j \in DOMAIN unique_tracks :
         /\ unique_tracks[i].popularity = Some(10) /\ IsFinal(unique_tracks[i])
         /\ unique_tracks[j].popularity = Some(2) /\ ~IsFinal(unique_tracks[j])

\* C10 as stated: with reference data, once a track is Verified (by a title match,
\* an album-title match or the popularity rule) every surviving track of the same
\* album id is Verified.
C10_VerifiedClosedUnderAlbum ==
    (apc = "classified" /\ ~NoReference) =>
        \A i, j \in DOMAIN unique_tracks :
            (IsFinal(unique_tracks[i])
                /\ unique_tracks[j].album.id = unique_tracks[i].album.id)
            => IsFinal(unique_tracks[j])

MatchesReference(t) ==
    \/ normalize_str(t.title) \in itunes_tracks
    \/ normalize_str(t.album.title) \in itunes_albums

\* C10: with reference data, once a track matches the reference by its normalized
\* title or its normalized album title, every surviving track of the same album id
\* is Verified.
C10_ReferenceMatchVerifiesAlbum ==
    (apc = "classified" /\ ~NoReference) =>
        \A i, j \in DOMAIN unique_tracks :
            (MatchesReference(unique_tracks[i])
                /\ unique_tracks[j].album.id = unique_tracks[i].album.id)
            => IsFinal(unique_tracks[j])

C10_Witness ==
    /\ apc = "classified"
    /\ ~NoReference
    /\ \E i, j \in DOMAIN unique_tracks :
         /\ MatchesReference(unique_tracks[i])
         /\ unique_tracks[j].album.id = unique_tracks[i].album.id
         /\ ~MatchesReference(unique_tracks[j])
         /\ OrZero(unique_tracks[j].popularity) < 50
         /\ IsFinal(unique_tracks[j])

\* The deduplicated set: the listing's tracks naming the picked artist, deduplicated.
Deduplicated == deduplicate_tracks(SelectSeq(tracks_list, LAMBDA t : IsStrict(t, Picked)))

\* C11: the step after classification turns an empty list of Verified tracks into
\* the full deduplicated set and leaves a non-empty one as it is, so the reconciled
\* list is empty only if the deduplicated set is empty.
C11_FallbackToDeduplicated ==
    [][apc = "classified" =>
          /\ final_tracks' = IF final_tracks = <<>> THEN Deduplicated ELSE final_tracks
          /\ (final_tracks' = <<>> => Deduplicated = <<>>)]_vars

C11_Witness ==
    /\ apc = "selected"
    /\ discarded_albums # {}
    /\ Len(final_tracks) >= 2
    /\ final_tracks = Deduplicated

\* The largest popularity (absent: 0) among the sorted tracks of a normalized album.
MaxPopularity(a) ==
    CHOOSE m \in {OrZero(sorted_tracks[i].popularity) : i \in DOMAIN sorted_tracks} :
        /\ \E i \in DOMAIN sorted_tracks :
              AlbumKey(sorted_tracks[i]) = a /\ OrZero(sorted_tracks[i].popularity) = m
        /\ \A i \in DOMAIN sorted_tracks :
              AlbumKey(sorted_tracks[i]) = a => OrZero(sorted_tracks[i].popularity) <= m

\* C12: the sorted output holds the reconciled tracks, whatever their order was; a
\* track of a normalized album of higher maximum popularity comes before every
\* track of one of lower maximum; of two albums of equal maxima the one of the
\* smaller normalized title comes first; within an album the track numbers
\* (absent: 0) ascend.
C12_SortedByAlbumPopularity ==
    apc = "sorted" =>
        /\ Len(sorted_tracks) = Len(final_tracks)
        /\ Range(sorted_tracks) = Range(final_tracks)
        /\ \A i, j \in DOMAIN sorted_tracks :
              i < j =>
                LET a == normalize_str(sorted_tracks[i].album.title)
                    b == normalize_str(sorted_tracks[j].album.title)
                IN  /\ MaxPopularity(a) >= MaxPopularity(b)
                    /\ (MaxPopularity(a) = MaxPopularity(b) /\ a # b) => StrLess(a, b)
                    /\ a = b => OrZero(sorted_tracks[i].trackNumber)
                                  <= OrZero(sorted_tracks[j].trackNumber)

C12_Witness ==
    /\ apc = "sorted"
    /\ Len(sorted_tracks) = 3
    /\ [i \in DOMAIN sorted_tracks |-> sorted_tracks[i].id] = <<3, 1, 2>>
    /\ AlbumKey(sorted_tracks[1]) = <<"x", "z">>
    /\ AlbumKey(sorted_tracks[2]) = <<"z">>
    /\ AlbumKey(sorted_tracks[3]) = <<"z">>
    /\ MaxPopularity(<<"x", "z">>) = MaxPopularity(<<"z">>)
    /\ sorted_tracks[2].trackNumber = None

\* A step of reference construction failed: the search request, the lookup
\* request (once it is made), or an item that raised.
ConstructionFailed ==
    \/ resp.kind # "ok"
    \/ main_artist_id # 0 /\ resp2.kind # "ok"
    \/ fp_error = "caught"

\* C13: get_itunes_fingerprint returns, and whenever a step of reference
\* construction failed it returns two empty sets.
C13_FailureGivesEmptySets ==
    (fpc = "returned" /\ ConstructionFailed) =>
        itunes_albums = {} /\ itunes_tracks = {}

\* The search results whose artist name is the queried name (letter case aside)
\* and that carry an artistId.
ExactMatches ==
    {i \in DOMAIN resp.results :
        /\ LowerText(resp.results[i].artistName) = LowerText(Picked.name)
        /\ resp.results[i].artistId # 0}

Frequency(id) == Cardinality({i \in ExactMatches : resp.results[i].artistId = id})

\* The most frequent artistId among the exact-name matches, the first seen of
\* the most frequent ones.
Resolved ==
    LET top == {i \in ExactMatches :
                  \A j \in ExactMatches :
                      Frequency(resp.results[j].artistId)
                          <= Frequency(resp.results[i].artistId)}
    IN  resp.results[CHOOSE i \in top : \A j \in top : i <= j].artistId

AlbumTitles(items) ==
    {normalize_str(items[i].collectionName) :
        i \in {i \in DOMAIN items : items[i].collectionName # <<>>}}

TrackTitles(items) ==
    {normalize_str(items[i].trackName) :
        i \in {i \in DOMAIN items : items[i].trackName # <<>>}}

\* The listing of the resolved identity.
ResolvedListing ==
    IF resp2.kind = "ok" THEN Listing(resp2.results, Resolved) ELSE <<>>

SameNameSameIdentity ==
    SelectSeq(resp.results,
              LAMBDA item : /\ LowerText(item.artistName) = LowerText(Picked.name)
                            /\ item.artistId = Resolved)

\* C14: every returned title is a title of the resolved identity's
\* listing or of a search result whose artist name is the queried name and whose
\* artistId is the resolved identity.
C14_TitlesOfResolvedIdentity ==
    (fpc = "returned" /\ ExactMatches # {}) =>
        /\ itunes_albums \subseteq
             AlbumTitles(ResolvedListing) \cup AlbumTitles(SameNameSameIdentity)
        /\ itunes_tracks \subseteq
             TrackTitles(ResolvedListing) \cup TrackTitles(SameNameSameIdentity)

\* C15: _download_track has been invoked once for each selected track up to the
\* one being processed, in selection order, each finished call was saved or
\* reported, and when the loop ends it has been invoked for every selected track,
\* whatever failed on the way.
C15_BatchIsolation ==
    /\ bpc # "idle" => invoked = SubSeq(selected, 1, track_ix)
    /\ bpc \in {"next", "done"} => Len(endings) = Len(invoked)
    /\ bpc \in {"info", "manifest", "assemble", "assembling", "tag"} =>
          Len(endings) = Len(invoked) - 1
    /\ bpc = "done" => invoked = selected

C15_Witness ==
    /\ bpc = "done"
    /\ Len(selected) = 2
    /\ invoked = selected
    /\ endings[1] \in {"info", "manifest", "assembly", "tagging"}
    /\ endings[2] = "saved"

\* The requests made for the track before the i-th one.
Earlier(i) == SubSeq(sent, 1, i - 1)

\* A mirror exhausted its retries or returned an empty manifest, at a quality.
MirrorFailed(log, base, quality) ==
    \/ \E i \in DOMAIN log :
          /\ log[i].base = base /\ log[i].quality = quality
          /\ log[i].answer = "empty"
    \/ Cardinality({i \in DOMAIN log :
                       /\ log[i].base = base /\ log[i].quality = quality
                       /\ log[i].answer = "exception"}) = 3

\* C17: the second mirror is asked only after the first exhausted its retries or
\* returned an empty manifest; nothing is requested after a non-empty manifest; the
\* alternate quality is requested only after both mirrors failed at the requested
\* one, in one get_track_manifest call; assembly is started only with a manifest
\* in hand.
C17_MirrorsThenAlternateTier ==
    /\ \A i \in DOMAIN sent :
          /\ sent[i].base = track_bases[2] =>
                MirrorFailed(Earlier(i), track_bases[1], sent[i].quality)
          /\ i < Len(sent) => sent[i].answer # "manifest"
          /\ sent[i].quality # requested =>
                /\ sent[i].quality = AltQuality(requested)
                /\ MirrorFailed(Earlier(i), track_bases[1], requested)
                /\ MirrorFailed(Earlier(i), track_bases[2], requested)
                /\ \A j \in DOMAIN sent : i < j => sent[j].quality = sent[i].quality
    /\ \A b \in Range(track_bases) :
          Cardinality({i \in DOMAIN sent :
                          sent[i].base = b /\ sent[i].quality # requested}) <= 3
    /\ started => sent # <<>> /\ sent[Len(sent)].answer = "manifest"

\* The element a lookup is to resolve to among those present: the qualified one
\* when there is one.
QualifiedFirst(present) == IF "q" \in present THEN "q" ELSE "u"

\* C16: once _download_dash has made its lookups, a Representation or
\* SegmentTemplate that the manifest holds was not reported missing, a present
\* SegmentTimeline is expanded, the SegmentTemplate used is the qualified one when
\* there is one, and the text of a present BaseURL (the qualified one when there is
\* one) is the base of every segment URL requested.
C16_QualifiedElementFound ==
    Parsed =>
        /\ Tree.rep # {} => error # "Could not find Representation in MPD"
        /\ (Tree.rep # {} /\ Tree.tpl # {}) => error # "Could not find SegmentTemplate"
        /\ error \notin StructureErrors =>
              /\ tpl_ns = QualifiedFirst(Tree.tpl)
              /\ Tree.timeline # {} => segments # <<>>
              /\ manifest_data.mpd.base # {} =>
                    /\ base_url = "base-" \o QualifiedFirst(manifest_data.mpd.base)
                    /\ \A j \in DOMAIN requests :
                          requests[j].base
                              = "base-" \o QualifiedFirst(manifest_data.mpd.base)

====
